---------------------------- MODULE Spec2Model ----------------------------
(***************************************************************************)
(* Model of the taggy ad server.  The repository holds three variants of   *)
(* the server:                                                             *)
(*   - the SQLite server with campaigns, impressions and analytics         *)
(*     (src/unnamed/part_000, lines 1-808),  specification Spec;           *)
(*   - the small SQLite server of src/main.go,  specification SpecLite;    *)
(*   - the in-memory server (src/unnamed/part_000, lines 810-1038),        *)
(*     specification SpecMem.                                              *)
(* Specification SpecPure applies the tag matchers and the CTR formatting  *)
(* to arguments of their own.                                              *)
(* Go strings that the code splits, trims, folds or compares byte-wise are *)
(* sequences of one-character strings; all other strings are TLA+ strings. *)
(***************************************************************************)
EXTENDS Integers, Sequences, FiniteSets, TLC

(***************************************************************************)
(* Bounds of the model.                                                    *)
(***************************************************************************)
MaxAds == 2
MaxCampaigns == 2
MaxImps == 2
MaxFile == 2
MaxTime == 2

(***************************************************************************)
(* Go strings package, on sequences of characters.                         *)
(***************************************************************************)
SP == " "
COMMA == ","

\* unicode.ToLower on the characters the model uses
ToLowerChar(c) ==
    CASE c = "V" -> "v"
      [] c = "E" -> "e"
      [] c = "M" -> "m"
      [] c = "D" -> "d"
      [] OTHER -> c

\* strings.ToLower
ToLower(s) == [i \in 1..Len(s) |-> ToLowerChar(s[i])]

RECURSIVE TrimLeft(_)
TrimLeft(s) ==
    IF s = <<>> THEN <<>>
    ELSE IF Head(s) = SP THEN TrimLeft(Tail(s)) ELSE s

RECURSIVE TrimRight(_)
TrimRight(s) ==
    IF s = <<>> THEN <<>>
    ELSE IF s[Len(s)] = SP THEN TrimRight(SubSeq(s, 1, Len(s) - 1)) ELSE s

\* strings.TrimSpace
TrimSpace(s) == TrimRight(TrimLeft(s))

\* strings.EqualFold
EqualFold(s, t) == ToLower(s) = ToLower(t)

\* strings.Split(s, ","): always at least one element, "" gives [""]
RECURSIVE SplitFrom(_, _)
SplitFrom(s, cur) ==
    IF s = <<>> THEN <<cur>>
    ELSE IF Head(s) = COMMA THEN <<cur>> \o SplitFrom(Tail(s), <<>>)
    ELSE SplitFrom(Tail(s), Append(cur, Head(s)))

Split(s) == SplitFrom(s, <<>>)

\* strings.Join(elems, ",")
RECURSIVE Join(_)
Join(elems) ==
    IF elems = <<>> THEN <<>>
    ELSE IF Len(elems) = 1 THEN elems[1]
    ELSE elems[1] \o <<COMMA>> \o Join(Tail(elems))

Range(s) == {s[i] : i \in 1..Len(s)}


(***************************************************************************)
(* Timestamps as the byte strings SQLite compares.  A time t is a number   *)
(* of seconds; a day has SecsPerDay seconds.                               *)
(***************************************************************************)
SecsPerDay == 2
Times == 0..MaxTime

Digit(n) == 48 + n

\* time.RFC3339 text "<day>T<sec>Z", as in the README's expires_at example
RFC3339(t) == <<Digit(t \div SecsPerDay), 84, Digit(t % SecsPerDay), 90>>

\* SQLite datetime('now') text "<day> <sec>"
SQLDatetime(t) == <<Digit(t \div SecsPerDay), 32, Digit(t % SecsPerDay)>>

\* SQLite's BINARY collation on TEXT (memcmp, shorter prefix first)
RECURSIVE BytesLess(_, _)
BytesLess(a, b) ==
    IF b = <<>> THEN FALSE
    ELSE IF a = <<>> THEN TRUE
    ELSE IF Head(a) # Head(b) THEN Head(a) < Head(b)
    ELSE BytesLess(Tail(a), Tail(b))

(***************************************************************************)
(* State.                                                                  *)
(***************************************************************************)
VARIABLES
    stage,            \* part_000 main(): which start-up step runs next, or "serving"
    campaigns,        \* rows of table campaigns
    nextCampaignId,   \* AUTOINCREMENT counter of campaigns
    ads,              \* rows of table ads
    nextAdId,         \* AUTOINCREMENT counter of ads
    impressions,      \* rows of table impressions
    nextImpId,        \* AUTOINCREMENT counter of impressions
    redir,            \* the handleRedirect request in flight between its two statements
    resp,             \* the response written by the last handler step
    liteAds,          \* main.go: rows of table ads
    liteNextAdId,     \* main.go: AUTOINCREMENT counter of ads
    liteImpressions,  \* main.go: rows of table impressions
    liteResp,         \* main.go: the response written by the last handler
    memAds,           \* in-memory server: the slice ads
    memFile,          \* in-memory server: the records of ads.json
    memPending,       \* in-memory server: handleAddAd requests between append and answer
    memResp,          \* in-memory server: the response written by the last handler
    pureIn,           \* the arguments the helper functions are applied to
    pureOut           \* what the helper functions returned for pureIn

fullVars == <<stage, campaigns, nextCampaignId, ads, nextAdId, impressions,
              nextImpId, redir, resp>>
liteVars == <<liteAds, liteNextAdId, liteImpressions, liteResp>>
memVars == <<memAds, memFile, memPending, memResp>>
pureVars == <<pureIn, pureOut>>
vars == <<fullVars, liteVars, memVars, pureVars>>

\* SQL NULL in an integer column
NULL == -1
\* SQL NULL in a TEXT column / a nil *string
NoText == <<>>

(***************************************************************************)
(* Request bodies and preload records (the Ad struct after JSON decoding). *)
(***************************************************************************)
Vegan == <<"v", "e">>
Meat == <<"m">>

Body(t, c, i, u, tg, cid, exp) ==
    [ad_type |-> t, content |-> c, image_url |-> i, redirect_url |-> u,
     tags |-> tg, campaign_id |-> cid, expires_at |-> exp]

AdBodies ==
    { Body("text", "hello", "", "http://x", <<Vegan>>, 1, NoText),
      Body("image", "", "img.png", "http://y", <<Meat>>, 2, RFC3339(1)),
      Body("text", "plain", "", "http://z", <<>>, 0, NoText),
      Body("video", "clip", "img.png", "http://x", <<Vegan>>, 1, NoText),
      Body("text", "", "img.png", "http://x", <<>>, 1, NoText),
      Body("image", "hello", "", "http://x", <<>>, 1, NoText),
      Body("text", "hello", "", "", <<Meat>>, 1, NoText) }

CampaignNames == {"", "spring"}

ImpressionRecords ==
    [ad_id : 0..MaxAds, action_type : {"view", "click", "hover"}]

\* every JSON array of at most MaxFile records (a missing file loads nothing)
FilesOf(S) == UNION {[1..n -> S] : n \in 0..MaxFile}

(***************************************************************************)
(* The database of part_000: schema of createTables, opened with _fk=1.    *)
(***************************************************************************)
DB == [campaigns |-> campaigns, nextCampaignId |-> nextCampaignId,
       ads |-> ads, nextAdId |-> nextAdId,
       impressions |-> impressions, nextImpId |-> nextImpId]

SetDB(d) ==
    /\ campaigns' = d.campaigns
    /\ nextCampaignId' = d.nextCampaignId
    /\ ads' = d.ads
    /\ nextAdId' = d.nextAdId
    /\ impressions' = d.impressions
    /\ nextImpId' = d.nextImpId

Ids(rows) == {r.id : r \in rows}

\* sql.Open(dbFile + "?_fk=1"): foreign keys are enforced
ForeignKeys == TRUE

\* CHECK(ad_type IN ('text', 'image'))
AdTypeCheck == {"text", "image"}
\* CHECK(action_type IN ('view', 'click'))
ActionTypeCheck == {"view", "click"}
\* the columns of table impressions
ImpressionColumns == {"id", "ad_id", "action_type", "ip", "user_agent", "viewed_at"}

\* FOREIGN KEY (campaign_id) REFERENCES campaigns(id)
CampaignFKHolds(d, cid) ==
    ~ForeignKeys \/ cid = NULL \/ cid \in Ids(d.campaigns)

\* FOREIGN KEY (ad_id) REFERENCES ads(id)
AdFKHolds(d, adId) ==
    ~ForeignKeys \/ adId \in Ids(d.ads)

\* INSERT INTO campaigns (name) VALUES (?)
ExecInsertCampaign(d, name) ==
    [d EXCEPT !.campaigns = @ \cup {[id |-> d.nextCampaignId, name |-> name]},
              !.nextCampaignId = @ + 1]

\* INSERT INTO ads (ad_type, content, image_url, redirect_url, tags,
\* campaign_id, expires_at) VALUES (...): the row is stored when the CHECK and
\* the foreign key hold, and the statement fails otherwise
AdRowAccepted(d, row) ==
    /\ row.ad_type \in AdTypeCheck
    /\ CampaignFKHolds(d, row.campaign_id)

ExecInsertAd(d, row) ==
    IF AdRowAccepted(d, row)
    THEN [ok |-> TRUE,
          db |-> [d EXCEPT !.ads = @ \cup {[id |-> d.nextAdId] @@ row},
                           !.nextAdId = @ + 1]]
    ELSE [ok |-> FALSE, db |-> d]

\* mutant of ExecUpdateAd: a row is written also when no row has the id
ExecUpsertAd(d, id, row) ==
    IF AdRowAccepted(d, row)
    THEN [ok |-> TRUE, rowsAffected |-> 1,
          db |-> [d EXCEPT !.ads = {a \in @ : a.id # id} \cup {[id |-> id] @@ row}]]
    ELSE [ok |-> FALSE, rowsAffected |-> 0, db |-> d]

\* UPDATE ads SET ad_type=?, ... WHERE id=?
ExecUpdateAd(d, id, row) ==
    IF id \notin Ids(d.ads)
    THEN [ok |-> TRUE, rowsAffected |-> 0, db |-> d]
    ELSE IF AdRowAccepted(d, row)
    THEN [ok |-> TRUE, rowsAffected |-> 1,
          db |-> [d EXCEPT !.ads = {a \in @ : a.id # id} \cup {[id |-> id] @@ row}]]
    ELSE [ok |-> FALSE, rowsAffected |-> 0, db |-> d]

\* mutant of CascadeOnAdDelete: the foreign key without ON DELETE CASCADE
NoCascadeOnAdDelete(imps, id) == imps

\* impressions: FOREIGN KEY (ad_id) REFERENCES ads(id) ON DELETE CASCADE
CascadeOnAdDelete(imps, id) == {i \in imps : i.ad_id # id}

\* mutant of ExecDeleteAd: the number of deleted rows is not looked at
ExecDeleteAdUnchecked(d, id) ==
    [rowsAffected |-> 1,
     db |-> [d EXCEPT !.ads = {a \in @ : a.id # id},
                      !.impressions = {i \in @ : i.ad_id # id}]]

\* DELETE FROM ads WHERE id = ?
ExecDeleteAd(d, id) ==
    IF id \notin Ids(d.ads)
    THEN [rowsAffected |-> 0, db |-> d]
    ELSE [rowsAffected |-> 1,
          db |-> [d EXCEPT !.ads = {a \in @ : a.id # id},
                           !.impressions =
                               IF ForeignKeys THEN CascadeOnAdDelete(@, id) ELSE @]]

\* mutant of SetNullOnCampaignDelete: ON DELETE CASCADE in place of SET NULL
CascadeOnCampaignDelete(rows, cid) == {a \in rows : a.campaign_id # cid}

\* ads: FOREIGN KEY (campaign_id) REFERENCES campaigns(id) ON DELETE SET NULL
SetNullOnCampaignDelete(rows, cid) ==
    {IF a.campaign_id = cid THEN [a EXCEPT !.campaign_id = NULL] ELSE a : a \in rows}

\* the deletion of a row of campaigns under the schema
ExecDeleteCampaign(d, cid) ==
    [d EXCEPT !.campaigns = {c \in @ : c.id # cid},
              !.ads = IF ForeignKeys THEN SetNullOnCampaignDelete(@, cid) ELSE @]

\* INSERT INTO impressions (<cols>) VALUES (...): fails on a column the table
\* does not have, on the CHECK and on the foreign key
ExecInsertImpression(d, cols, adId, kind) ==
    IF /\ cols \subseteq ImpressionColumns
       /\ kind \in ActionTypeCheck
       /\ AdFKHolds(d, adId)
    THEN [ok |-> TRUE,
          db |-> [d EXCEPT !.impressions =
                               @ \cup {[id |-> d.nextImpId, ad_id |-> adId,
                                        action_type |-> kind]},
                           !.nextImpId = @ + 1]]
    ELSE [ok |-> FALSE, db |-> d]

(***************************************************************************)
(* part_000: validation, insertion and the start-up loaders.               *)
(***************************************************************************)
\* validateAd: "" when the ad is valid, else the error
validateAd(ad) ==
    IF ad.ad_type # "text" /\ ad.ad_type # "image" THEN "invalid ad_type"
    ELSE IF ad.redirect_url = "" THEN "redirect_url is required"
    ELSE IF ad.ad_type = "text" /\ ad.content = "" THEN "content is required for text ads"
    ELSE IF ad.ad_type = "image" /\ ad.image_url = "" THEN "image_url is required for image ads"
    ELSE ""

\* the column values insertAd and handleUpdateAd bind: tags joined by commas,
\* campaign_id the struct's int (0 when the body names none), expires_at NULL
\* for a nil pointer
BoundRow(ad) ==
    [ad_type |-> ad.ad_type, content |-> ad.content, image_url |-> ad.image_url,
     redirect_url |-> ad.redirect_url, tags |-> Join(ad.tags),
     campaign_id |-> ad.campaign_id, expires_at |-> ad.expires_at]

insertAd(d, ad) == ExecInsertAd(d, BoundRow(ad))

\* the loop of loadAdsFromJSON: invalid records are skipped, insert errors ignored
RECURSIVE LoadAds(_, _)
LoadAds(d, file) ==
    IF file = <<>> THEN d
    ELSE IF validateAd(Head(file)) # "" THEN LoadAds(d, Tail(file))
    ELSE LoadAds(insertAd(d, Head(file)).db, Tail(file))

\* the loop of loadCampaignsFromJSON
RECURSIVE LoadCampaigns(_, _)
LoadCampaigns(d, file) ==
    IF file = <<>> THEN d
    ELSE IF Head(file) = "" THEN LoadCampaigns(d, Tail(file))
    ELSE LoadCampaigns(ExecInsertCampaign(d, Head(file)), Tail(file))

PreloadImpressionColumns == {"ad_id", "action_type", "ip", "user_agent", "viewed_at"}

\* the loop of loadImpressionsFromJSON
RECURSIVE LoadImpressions(_, _)
LoadImpressions(d, file) ==
    IF file = <<>> THEN d
    ELSE IF \/ Head(file).ad_id = 0
            \/ (Head(file).action_type # "view" /\ Head(file).action_type # "click")
    THEN LoadImpressions(d, Tail(file))
    ELSE LoadImpressions(
             ExecInsertImpression(d, PreloadImpressionColumns, Head(file).ad_id,
                                  Head(file).action_type).db,
             Tail(file))

\* the identifiers the bounds leave room for
WithinBounds(d) ==
    /\ d.nextCampaignId <= MaxCampaigns + 1
    /\ d.nextAdId <= MaxAds + 1
    /\ d.nextImpId <= MaxImps + 1

(***************************************************************************)
(* part_000: ad selection.                                                 *)
(***************************************************************************)
\* matchesTags(adTags, userTags)
matchesTags(adTags, userTags) ==
    IF Len(userTags) = 0 \/ (Len(userTags) = 1 /\ TrimSpace(userTags[1]) = <<>>)
    THEN TRUE
    ELSE \E i \in 1..Len(userTags) :
            /\ TrimSpace(ToLower(userTags[i])) # <<>>
            /\ \E j \in 1..Len(adTags) :
                  TrimSpace(ToLower(adTags[j])) = TrimSpace(ToLower(userTags[i]))

\* WHERE (expires_at IS NULL OR expires_at > datetime('now'))
NotExpired(a, now) ==
    a.expires_at = NoText \/ BytesLess(SQLDatetime(now), a.expires_at)

\* ORDER BY RANDOM() LIMIT 100
RandomAdLimit == 100

RandomAdRowSets(d, now) ==
    LET pool == {a \in d.ads : NotExpired(a, now)}
    IN  {S \in SUBSET pool :
            Cardinality(S) = IF Cardinality(pool) < RandomAdLimit
                             THEN Cardinality(pool) ELSE RandomAdLimit}

\* the columns handleRandomAd selects and the destinations it hands to rows.Scan
RandomAdColumns ==
    <<"id", "ad_type", "content", "image_url", "redirect_url", "tags", "campaign_id">>
RandomAdScanDests ==
    <<"ID", "AdType", "Content", "ImageURL", "RedirectURL", "tagsStr", "CampaignID",
      "ExpiresAt">>

\* database/sql Rows.Scan: an error unless there is one destination per column
\* and every value converts (a NULL does not convert to an int)
ScanSucceeds(cols, dests, row) ==
    /\ Len(cols) = Len(dests)
    /\ \A i \in 1..Len(cols) : cols[i] = "campaign_id" => row.campaign_id # NULL

\* a.Tags after the scan: nil for an empty column, else the comma split
ScannedTags(tagsStr) == IF tagsStr # <<>> THEN Split(tagsStr) ELSE <<>>

\* the candidates slice handleRandomAd builds from the rows
RandomAdCandidates(rows, tags) ==
    {a \in rows : /\ ScanSucceeds(RandomAdColumns, RandomAdScanDests, a)
                  /\ matchesTags(ScannedTags(a.tags), tags)}

(***************************************************************************)
(* part_000: analytics.                                                    *)
(***************************************************************************)
\* LEFT JOIN impressions i ON a.id = i.ad_id, for one ad: its impression rows,
\* or a single all-NULL row when it has none
JoinedImpressions(d, a) ==
    LET mine == {i \in d.impressions : i.ad_id = a.id}
    IN  IF mine = {} THEN {[id |-> NULL, ad_id |-> NULL, action_type |-> "NULL"]}
        ELSE mine

\* COALESCE(SUM(CASE WHEN a.ad_type = kind THEN 1 ELSE 0 END), 0)
SumCase(d, a, kind) == Cardinality({i \in JoinedImpressions(d, a) : a.ad_type = kind})

\* one AnalyticsStats per group of the query; rows.Scan stops at the first
\* value that does not convert, leaving the later fields zero
StatsRow(d, a) ==
    LET scanned == a.campaign_id # NULL
    IN  [ad_id |-> a.id,
         views |-> IF scanned THEN SumCase(d, a, "view") ELSE 0,
         clicks |-> IF scanned THEN SumCase(d, a, "click") ELSE 0]

\* GROUP BY a.id
computeStats(d) == {StatsRow(d, a) : a \in d.ads}

\* ORDER BY views DESC, over the query's own views column: the orders of the
\* ad ids SQLite may return the groups in; rows with equal views come in an
\* order the statement leaves undefined
StatsOrders(d) ==
    LET n == Cardinality(d.ads)
        sqlViews(id) == SumCase(d, CHOOSE a \in d.ads : a.id = id, "view")
    IN  {o \in [1..n -> Ids(d.ads)] :
            /\ \A i, j \in 1..n : i # j => o[i] # o[j]
            /\ \A i, j \in 1..n : i < j => sqlViews(o[i]) >= sqlViews(o[j])}

(***************************************************************************)
(* Responses.                                                              *)
(***************************************************************************)
\* the decoded body of a request that carries none
NoBody == Body("", "", "", "", <<>>, 0, NoText)

\* op, id, query, now and body are the request the response answers
Resp(op, id, status) ==
    [op |-> op, id |-> id, status |-> status, ad |-> 0, query |-> <<>>,
     now |-> 0, rows |-> {}, order |-> <<>>, body |-> NoBody]

NoResp == Resp("none", 0, 0)

\* the tags query strings requests carry
Dairy == <<"d">>

TagQueries == { <<>>, <<SP, "V", "e">>, Dairy }

RequestIds == 1..MaxAds

(***************************************************************************)
(* part_000: start-up (main) and the handlers.                             *)
(***************************************************************************)
Idle == [pc |-> "idle", id |-> 0, url |-> ""]

\* in-memory variant: a response; id is the Ad.ID string the answer carries
MemResp(op, id, status) == [op |-> op, id |-> id, status |-> status, query |-> <<>>]

MemNoResp == MemResp("none", <<>>, 0)

\* the in-memory server is not running
MemOff ==
    /\ memAds = <<>>
    /\ memFile = <<>>
    /\ memPending = <<>>
    /\ memResp = MemNoResp

\* no helper function is being applied
NoArgs == [adTags |-> <<>>, query |-> <<>>, views |-> 0, clicks |-> 0]
NoResult == [op |-> "none", matchesTags |-> FALSE, anyMatch |-> FALSE,
             memAnyMatch |-> FALSE, ctr |-> <<>>]
PureOff ==
    /\ pureIn = NoArgs
    /\ pureOut = NoResult

\* both SQLite servers after sql.Open and before their first statement
ServersInit ==
    /\ stage = "loadCampaigns"
    /\ campaigns = {}
    /\ nextCampaignId = 1
    /\ ads = {}
    /\ nextAdId = 1
    /\ impressions = {}
    /\ nextImpId = 1
    /\ redir = Idle
    /\ resp = NoResp
    /\ liteAds = {}
    /\ liteNextAdId = 1
    /\ liteImpressions = {}
    /\ liteResp = NoResp

Init == ServersInit /\ MemOff /\ PureOff

\* main: loadCampaignsFromJSON(preloadCampaigns)
loadCampaignsFromJSON ==
    /\ stage = "loadCampaigns"
    /\ \E file \in FilesOf(CampaignNames) :
          /\ WithinBounds(LoadCampaigns(DB, file))
          /\ SetDB(LoadCampaigns(DB, file))
    /\ stage' = "loadAds"
    /\ UNCHANGED <<redir, resp, liteVars, memVars, pureVars>>

\* main: loadAdsFromJSON(preloadJSONFile)
loadAdsFromJSON ==
    /\ stage = "loadAds"
    /\ \E file \in FilesOf(AdBodies) :
          /\ WithinBounds(LoadAds(DB, file))
          /\ SetDB(LoadAds(DB, file))
    /\ stage' = "loadImpressions"
    /\ UNCHANGED <<redir, resp, liteVars, memVars, pureVars>>

\* main: loadImpressionsFromJSON(preloadImpressions), then ListenAndServe
loadImpressionsFromJSON ==
    /\ stage = "loadImpressions"
    /\ \E file \in FilesOf(ImpressionRecords) :
          /\ WithinBounds(LoadImpressions(DB, file))
          /\ SetDB(LoadImpressions(DB, file))
    /\ stage' = "serving"
    /\ UNCHANGED <<redir, resp, liteVars, memVars, pureVars>>

\* the process is stopped and started again on the same ads.db
Restart ==
    /\ stage = "serving"
    /\ stage' = "loadCampaigns"
    /\ redir' = Idle
    /\ resp' = NoResp
    /\ UNCHANGED <<campaigns, nextCampaignId, ads, nextAdId, impressions, nextImpId,
                   liteVars, memVars, pureVars>>

handleRandomAd ==
    /\ stage = "serving"
    /\ \E q \in TagQueries, now \in Times :
       \E rows \in RandomAdRowSets(DB, now) :
          LET candidates == RandomAdCandidates(rows, Split(q))
          IN  IF candidates = {}
              THEN resp' = [Resp("random", 0, 404) EXCEPT !.query = q, !.now = now]
              ELSE \E ad \in candidates :
                      resp' = [Resp("random", 0, 200) EXCEPT
                                   !.query = q, !.now = now, !.ad = ad.id]
    /\ UNCHANGED <<stage, campaigns, nextCampaignId, ads, nextAdId, impressions,
                   nextImpId, redir, liteVars, memVars, pureVars>>

handleAddAd ==
    /\ stage = "serving"
    /\ \E ad \in AdBodies :
          IF validateAd(ad) # ""
          THEN /\ resp' = [Resp("addAd", 0, 400) EXCEPT !.body = ad]
               /\ UNCHANGED <<campaigns, nextCampaignId, ads, nextAdId, impressions,
                              nextImpId>>
          ELSE LET r == insertAd(DB, ad)
               IN  /\ WithinBounds(r.db)
                   /\ SetDB(r.db)
                   /\ resp' = [Resp("addAd", 0, IF r.ok THEN 201 ELSE 500)
                                  EXCEPT !.body = ad]
    /\ UNCHANGED <<stage, redir, liteVars, memVars, pureVars>>

handleDeleteAd ==
    /\ stage = "serving"
    /\ \E id \in RequestIds :
          LET r == ExecDeleteAd(DB, id)
          IN  /\ SetDB(r.db)
              /\ resp' = IF r.rowsAffected = 0 THEN Resp("deleteAd", id, 404)
                         ELSE Resp("deleteAd", id, 200)
    /\ UNCHANGED <<stage, redir, liteVars, memVars, pureVars>>

handleUpdateAd ==
    /\ stage = "serving"
    /\ \E id \in RequestIds, ad \in AdBodies :
          IF validateAd(ad) # ""
          THEN /\ resp' = [Resp("updateAd", id, 400) EXCEPT !.body = ad]
               /\ UNCHANGED <<campaigns, nextCampaignId, ads, nextAdId, impressions,
                              nextImpId>>
          ELSE LET r == ExecUpdateAd(DB, id, BoundRow(ad))
               IN  /\ SetDB(r.db)
                   /\ resp' = [Resp("updateAd", id,
                                       IF ~r.ok THEN 500
                                       ELSE IF r.rowsAffected = 0 THEN 404
                                       ELSE 200)
                                  EXCEPT !.body = ad]
    /\ UNCHANGED <<stage, redir, liteVars, memVars, pureVars>>

handleAddCampaign ==
    /\ stage = "serving"
    /\ \E name \in CampaignNames :
          IF name = ""
          THEN /\ resp' = Resp("addCampaign", 0, 400)
               /\ UNCHANGED <<campaigns, nextCampaignId, ads, nextAdId, impressions,
                              nextImpId>>
          ELSE /\ WithinBounds(ExecInsertCampaign(DB, name))
               /\ SetDB(ExecInsertCampaign(DB, name))
               /\ resp' = Resp("addCampaign", nextCampaignId, 201)
    /\ UNCHANGED <<stage, redir, liteVars, memVars, pureVars>>

\* the columns the two serving handlers name in their INSERT INTO impressions
HandlerImpressionColumns == {"ad_id", "ad_type", "ip", "user_agent"}

handleImpression ==
    /\ stage = "serving"
    /\ \E id \in RequestIds :
          LET r == ExecInsertImpression(DB, HandlerImpressionColumns, id, "view")
          IN  /\ WithinBounds(r.db)
              /\ SetDB(r.db)
              /\ resp' = IF r.ok THEN Resp("impression", id, 200)
                         ELSE Resp("impression", id, 500)
    /\ UNCHANGED <<stage, redir, liteVars, memVars, pureVars>>

\* handleRedirect, first statement: SELECT redirect_url FROM ads WHERE id = ?
handleRedirectLookup ==
    /\ stage = "serving"
    /\ redir.pc = "idle"
    /\ \E id \in RequestIds :
          IF id \in Ids(ads)
          THEN /\ redir' = [pc |-> "insert", id |-> id,
                            url |-> (CHOOSE a \in ads : a.id = id).redirect_url]
               /\ resp' = NoResp
          ELSE /\ redir' = Idle
               /\ resp' = Resp("redirect", id, 404)
    /\ UNCHANGED <<stage, campaigns, nextCampaignId, ads, nextAdId, impressions,
                   nextImpId, liteVars, memVars, pureVars>>

\* handleRedirect, second statement and the redirect: the insert's error is dropped
handleRedirectInsert ==
    /\ stage = "serving"
    /\ redir.pc = "insert"
    /\ LET r == ExecInsertImpression(DB, HandlerImpressionColumns, redir.id, "click")
       IN  /\ WithinBounds(r.db)
           /\ SetDB(r.db)
    /\ resp' = Resp("redirect", redir.id, 302)
    /\ redir' = Idle
    /\ UNCHANGED <<stage, liteVars, memVars, pureVars>>

handleAnalyticsStats ==
    /\ stage = "serving"
    /\ \E o \in StatsOrders(DB) :
          resp' = [Resp("stats", 0, 200) EXCEPT !.rows = computeStats(DB), !.order = o]
    /\ UNCHANGED <<stage, campaigns, nextCampaignId, ads, nextAdId, impressions,
                   nextImpId, redir, liteVars, memVars, pureVars>>

\* a row of campaigns is deleted (the schema's ON DELETE clause decides the ads)
DeleteCampaign ==
    /\ \E cid \in Ids(campaigns) : SetDB(ExecDeleteCampaign(DB, cid))
    /\ resp' = NoResp
    /\ UNCHANGED <<stage, redir, liteVars, memVars, pureVars>>

Next ==
    \/ loadCampaignsFromJSON
    \/ loadAdsFromJSON
    \/ loadImpressionsFromJSON
    \/ Restart
    \/ handleRandomAd
    \/ handleAddAd
    \/ handleDeleteAd
    \/ handleUpdateAd
    \/ handleAddCampaign
    \/ handleImpression
    \/ handleRedirectLookup
    \/ handleRedirectInsert
    \/ handleAnalyticsStats
    \/ DeleteCampaign

Spec == Init /\ [][Next]_vars

(***************************************************************************)
(* src/main.go: the small SQLite server.  Its database is opened without   *)
(* _fk, and its schema has no CHECK and no NOT NULL: every insert succeeds. *)
(***************************************************************************)
\* the zero time.Time of a body without expires_at
ZeroTime == -1

LiteBody(t, c, i, u, tg, cid, exp) ==
    [type |-> t, content |-> c, image_url |-> i, redirect_url |-> u,
     tags |-> tg, campaign_id |-> cid, expires_at |-> exp]

LiteAdBodies ==
    { LiteBody("text", "hello", "", "http://x", <<Vegan>>, 0, ZeroTime),
      LiteBody("image", "", "img.png", "http://y", <<Meat>>, 1, 1),
      LiteBody("video", "", "", "http://x", <<>>, 0, ZeroTime),
      LiteBody("text", "", "", "", <<Vegan>>, 0, ZeroTime) }

QUOTE == "\""

\* json.Marshal of a []string: null for a nil slice
RECURSIVE MarshalElems(_)
MarshalElems(tags) ==
    IF tags = <<>> THEN <<>>
    ELSE <<QUOTE>> \o Head(tags) \o <<QUOTE>>
         \o (IF Len(tags) > 1 THEN <<COMMA>> ELSE <<>>) \o MarshalElems(Tail(tags))

MarshalTags(tags) ==
    IF tags = <<>> THEN <<"n", "u", "l", "l">>
    ELSE <<"[">> \o MarshalElems(tags) \o <<"]">>

\* json.Unmarshal into a []string: the quoted strings of the array, in order
RECURSIVE UnmarshalElems(_, _, _)
UnmarshalElems(text, inString, cur) ==
    IF text = <<>> THEN <<>>
    ELSE IF Head(text) = QUOTE
    THEN IF inString THEN <<cur>> \o UnmarshalElems(Tail(text), FALSE, <<>>)
         ELSE UnmarshalElems(Tail(text), TRUE, <<>>)
    ELSE IF inString THEN UnmarshalElems(Tail(text), TRUE, Append(cur, Head(text)))
    ELSE UnmarshalElems(Tail(text), FALSE, cur)

UnmarshalTags(text) ==
    IF text = <<"n", "u", "l", "l">> THEN <<>> ELSE UnmarshalElems(text, FALSE, <<>>)

\* time.Parse(time.RFC3339, s): the time, or ZeroTime with an error
ParseRFC3339(s) ==
    IF Len(s) = 4 /\ s[2] = 84 /\ s[4] = 90
    THEN (s[1] - 48) * SecsPerDay + (s[3] - 48)
    ELSE ZeroTime

\* the values both inserts of main.go bind
LiteBoundRow(ad) ==
    [campaign_id |-> ad.campaign_id, type |-> ad.type, content |-> ad.content,
     image_url |-> ad.image_url, redirect_url |-> ad.redirect_url,
     tags |-> MarshalTags(ad.tags),
     expires_at |-> IF ad.expires_at = ZeroTime THEN NoText ELSE RFC3339(ad.expires_at)]

LiteDB == [ads |-> liteAds, nextAdId |-> liteNextAdId]

\* INSERT INTO ads (campaign_id, type, content, image_url, redirect_url, tags, expires_at)
LiteExecInsertAd(d, row) ==
    [ads |-> d.ads \cup {[id |-> d.nextAdId] @@ row}, nextAdId |-> d.nextAdId + 1]

\* main.go loadAdsFromJSON: every record of the file is inserted as it is
RECURSIVE LiteLoadAds(_, _)
LiteLoadAds(d, file) ==
    IF file = <<>> THEN d
    ELSE LiteLoadAds(LiteExecInsertAd(d, LiteBoundRow(Head(file))), Tail(file))

\* main.go anyMatch
anyMatchLite(adTags, prefs) ==
    \E i \in 1..Len(adTags), j \in 1..Len(prefs) :
        EqualFold(TrimSpace(adTags[i]), TrimSpace(prefs[j]))

\* main.go handleRandomAd, one row: skipped when its expiry parses and is before now
LiteExpired(row, now) ==
    /\ row.expires_at # NoText
    /\ ParseRFC3339(row.expires_at) # ZeroTime
    /\ ParseRFC3339(row.expires_at) < now

\* main.go handleRandomAd: the available slice
LiteAvailable(rows, prefs, now) ==
    {a \in rows : /\ ~LiteExpired(a, now)
                  /\ (Len(prefs) = 0 \/ anyMatchLite(UnmarshalTags(a.tags), prefs))}

\* main: loadAdsFromJSON at start-up, and handleReloadFromJSON
liteLoadAdsFromJSON ==
    /\ \E file \in FilesOf(LiteAdBodies) :
          LET d == LiteLoadAds(LiteDB, file)
          IN  /\ d.nextAdId <= MaxAds + 1
              /\ liteAds' = d.ads
              /\ liteNextAdId' = d.nextAdId
    /\ liteResp' = Resp("reload", 0, 200)
    /\ UNCHANGED <<liteImpressions, fullVars, memVars, pureVars>>

liteHandleAddAd ==
    /\ liteNextAdId <= MaxAds
    /\ \E ad \in LiteAdBodies :
          LET d == LiteExecInsertAd(LiteDB, LiteBoundRow(ad))
          IN  /\ liteAds' = d.ads
              /\ liteNextAdId' = d.nextAdId
    /\ liteResp' = Resp("addAd", 0, 200)
    /\ UNCHANGED <<liteImpressions, fullVars, memVars, pureVars>>

liteHandleRandomAd ==
    /\ \E q \in TagQueries, now \in Times :
          LET prefs == IF q # <<>> THEN Split(q) ELSE <<>>
              available == LiteAvailable(liteAds, prefs, now)
          IN  IF available = {}
              THEN liteResp' = [Resp("random", 0, 404) EXCEPT !.query = q, !.now = now]
              ELSE \E ad \in available :
                      liteResp' = [Resp("random", 0, 200) EXCEPT
                                       !.query = q, !.now = now, !.ad = ad.id]
    /\ UNCHANGED <<liteAds, liteNextAdId, liteImpressions, fullVars, memVars, pureVars>>

\* main.go handleAdClick; no statement of main.go removes a row, so the
\* SELECT and the INSERT see the same ads
liteHandleAdClick ==
    /\ \E id \in RequestIds :
          IF id \notin Ids(liteAds)
          THEN /\ liteResp' = Resp("click", id, 404)
               /\ UNCHANGED liteImpressions
          ELSE /\ Cardinality(liteImpressions) < MaxImps
               /\ liteImpressions' = liteImpressions \cup
                     {[id |-> Cardinality(liteImpressions) + 1, ad_id |-> id]}
               /\ liteResp' =
                     IF (CHOOSE a \in liteAds : a.id = id).redirect_url = ""
                     THEN Resp("click", id, 404)
                     ELSE Resp("click", id, 302)
    /\ UNCHANGED <<liteAds, liteNextAdId, fullVars, memVars, pureVars>>

LiteNext ==
    \/ liteLoadAdsFromJSON
    \/ liteHandleAddAd
    \/ liteHandleRandomAd
    \/ liteHandleAdClick

SpecLite == Init /\ [][LiteNext]_vars


(* The helper functions applied to arguments of their own: the three tag   *)
(* matchers of the repository and the CTR formatting of part_000's         *)
(* handleAnalyticsStats.                                                   *)
(***************************************************************************)
MaxViews == 10
MaxClicks == 3

\* in-memory variant: anyMatch compares the tags as they are
anyMatchMem(adTags, prefs) ==
    \E i \in 1..Len(adTags), j \in 1..Len(prefs) : EqualFold(adTags[i], prefs[j])

\* prefs of main.go's and the in-memory variant's handleRandomAd: the
\* parameter is split only when it is not empty
Prefs(q) == IF q # <<>> THEN Split(q) ELSE <<>>

\* the Tags slices of ads
PureAdTags ==
    { <<>>, <<<<>>>>, <<Vegan>>, <<<<"V", "e">>>>, <<<<SP, "v", "e">>, Meat>>,
      <<Dairy, Meat>> }

\* the tags / preferences query parameters
PureQueries ==
    { <<>>, <<COMMA>>, <<SP, COMMA, SP>>, <<SP, "v", "e", SP>>, <<"V", "E">>,
      <<"m", COMMA, "d">>, Dairy }

\* strconv digits
DigitChar(n) == <<"0", "1", "2", "3", "4", "5", "6", "7", "8", "9">>[n + 1]

RECURSIVE Itoa(_)
Itoa(n) == IF n < 10 THEN <<DigitChar(n)>> ELSE Itoa(n \div 10) \o <<DigitChar(n % 10)>>

\* "%.2f": the value in hundredths, rounded to the nearest (a tie, which needs
\* a divisor of at least 32, goes to the even digit), then "int.dd"
RoundDiv(num, den) ==
    LET q == num \div den
        r == num % den
    IN  IF 2 * r > den \/ (2 * r = den /\ q % 2 = 1) THEN q + 1 ELSE q

Sprintf2f(h) == Itoa(h \div 100) \o <<".", DigitChar((h \div 10) % 10), DigitChar(h % 10)>>

\* mutant of FormatCTR: the quotient taken in int before the conversion
FormatCTRIntDiv(views, clicks) ==
    IF views > 0
    THEN Sprintf2f((clicks \div views) * 100 * 100) \o <<"%">>
    ELSE <<"0", "%">>

\* s.CTR: fmt.Sprintf("%.2f%%", float64(s.Clicks)/float64(s.Views)*100), or "0%"
FormatCTR(views, clicks) ==
    IF views > 0
    THEN Sprintf2f(RoundDiv(clicks * 100 * 100, views)) \o <<"%">>
    ELSE <<"0", "%">>

\* the arguments: tags and a query for the matchers, or the Views and Clicks
\* of a scanned row
PureArgs ==
    [adTags : PureAdTags, query : PureQueries, views : {0}, clicks : {0}]
    \cup [adTags : {<<>>}, query : {<<>>}, views : 0..MaxViews, clicks : 0..MaxClicks]

InitPure ==
    /\ ServersInit
    /\ MemOff
    /\ pureIn \in PureArgs
    /\ pureOut = NoResult

\* the calls of the three handleRandomAd functions
applyMatchers ==
    /\ pureOut.op = "none"
    /\ pureOut' = [NoResult EXCEPT
                      !.op = "match",
                      !.matchesTags = matchesTags(pureIn.adTags, Split(pureIn.query)),
                      !.anyMatch = anyMatchLite(pureIn.adTags, Prefs(pureIn.query)),
                      !.memAnyMatch = anyMatchMem(pureIn.adTags, Prefs(pureIn.query))]
    /\ UNCHANGED <<pureIn, fullVars, liteVars, memVars>>

\* the body of handleAnalyticsStats' rows.Next loop after the Scan
applyCTR ==
    /\ pureOut.op = "none"
    /\ pureOut' = [NoResult EXCEPT !.op = "ctr",
                                   !.ctr = FormatCTR(pureIn.views, pureIn.clicks)]
    /\ UNCHANGED <<pureIn, fullVars, liteVars, memVars>>

NextPure ==
    \/ applyMatchers
    \/ applyCTR

SpecPure == InitPure /\ [][NextPure]_vars

(***************************************************************************)
(***************************************************************************)
(* part_000, second program: the in-memory server.  ads is a slice guarded *)
(* by mu; ads.json is read by loadAds and rewritten by saveAds.            *)
(***************************************************************************)
MaxMemAds == 2
MaxPending == 2
MaxRand == 2

MemAd(id, t, tg) == [id |-> id, type |-> t, tags |-> tg]

\* decoded bodies of POST /api/ad/add: without an id, and with one
MemBodies ==
    { MemAd(<<>>, "text", <<Vegan>>),
      MemAd(<<"a">>, "image", <<Meat>>),
      MemAd(<<"1">>, "text", <<>>) }

\* json.MarshalIndent of one Ad: tags is omitted when empty
MemEncodeAd(a) ==
    IF a.tags = <<>>
    THEN [id |-> a.id, type |-> a.type]
    ELSE [id |-> a.id, type |-> a.type, tags |-> a.tags]

\* json Decode of one object into an Ad
MemDecodeAd(o) ==
    [id |-> o.id, type |-> o.type,
     tags |-> IF "tags" \in DOMAIN o THEN o.tags ELSE <<>>]

MemEncode(list) == [i \in 1..Len(list) |-> MemEncodeAd(list[i])]
MemDecode(file) == [i \in 1..Len(file) |-> MemDecodeAd(file[i])]

\* the ads.json the server is started on
MemFiles == { <<>>, <<MemEncodeAd(MemAd(<<"a">>, "text", <<Vegan>>))>> }

MemIds(list) == {list[i].id : i \in 1..Len(list)}

\* fmt.Sprintf("%d", rand.Int()): one of 2^63 values; the model draws from
\* 1..MaxRand and leaves out the draws that repeat an id of the slice
RandIds(list) == {Itoa(n) : n \in 1..MaxRand} \ MemIds(list)

RemoveAt(seq, i) == SubSeq(seq, 1, i - 1) \o SubSeq(seq, i + 1, Len(seq))

\* main: loadAds() has returned
InitMem ==
    /\ ServersInit
    /\ PureOff
    /\ memFile \in MemFiles
    /\ memAds = MemDecode(memFile)
    /\ memPending = <<>>
    /\ memResp = MemNoResp

\* a handleAddAd request between its append and its answer: pc is "save"
\* before saveAds, then "open", "write" and "close" inside saveAds, where the
\* request holds mu.RLock and data is what MarshalIndent returned
Pending(id, pc, data) == [id |-> id, pc |-> pc, data |-> data]

\* mu: the requests that hold the read lock.  mu.Lock needs that there is none;
\* no request holds the write lock between two steps
ReadLocked == \E i \in 1..Len(memPending) : memPending[i].pc \in {"open", "write", "close"}

\* f.Write(data) on a file opened at offset 0: the bytes beyond data stay
WriteAt0(data, file) == data \o SubSeq(file, Len(data) + 1, Len(file))

\* handleReloadAds: loadAds under mu.Lock
memHandleReloadAds ==
    /\ ~ReadLocked
    /\ memAds' = MemDecode(memFile)
    /\ memResp' = MemResp("reload", <<>>, 200)
    /\ UNCHANGED <<memFile, memPending, fullVars, liteVars, pureVars>>

\* handleAddAd up to mu.Unlock: the id is the body's, or a random one when the
\* body has none, and the ad is appended under mu.Lock
memHandleAddAdAppend ==
    /\ ~ReadLocked
    /\ Len(memAds) < MaxMemAds
    /\ Len(memPending) < MaxPending
    /\ \E body \in MemBodies :
       \E id \in (IF body.id = <<>> THEN RandIds(memAds) ELSE {body.id}) :
          /\ memAds' = Append(memAds, [body EXCEPT !.id = id])
          /\ memPending' = Append(memPending, Pending(id, "save", <<>>))
    /\ memResp' = MemNoResp
    /\ UNCHANGED <<memFile, fullVars, liteVars, pureVars>>

\* saveAds: mu.RLock and json.MarshalIndent(ads)
memSaveAdsMarshal ==
    /\ \E i \in 1..Len(memPending) :
          /\ memPending[i].pc = "save"
          /\ memPending' = [memPending EXCEPT
                                ![i] = Pending(@.id, "open", MemEncode(memAds))]
    /\ memResp' = MemNoResp
    /\ UNCHANGED <<memAds, memFile, fullVars, liteVars, pureVars>>

\* saveAds: os.WriteFile opens ads.json with O_TRUNC
memSaveAdsOpen ==
    /\ \E i \in 1..Len(memPending) :
          /\ memPending[i].pc = "open"
          /\ memPending' = [memPending EXCEPT ![i].pc = "write"]
    /\ memFile' = <<>>
    /\ memResp' = MemNoResp
    /\ UNCHANGED <<memAds, fullVars, liteVars, pureVars>>

\* saveAds: os.WriteFile writes the data
memSaveAdsWrite ==
    /\ \E i \in 1..Len(memPending) :
          /\ memPending[i].pc = "write"
          /\ memPending' = [memPending EXCEPT ![i].pc = "close"]
          /\ memFile' = WriteAt0(memPending[i].data, memFile)
    /\ memResp' = MemNoResp
    /\ UNCHANGED <<memAds, fullVars, liteVars, pureVars>>

\* saveAds returns (mu.RUnlock) and handleAddAd answers with the id
memHandleAddAdAnswer ==
    /\ \E i \in 1..Len(memPending) :
          /\ memPending[i].pc = "close"
          /\ memResp' = MemResp("addAd", memPending[i].id, 200)
          /\ memPending' = RemoveAt(memPending, i)
    /\ UNCHANGED <<memAds, memFile, fullVars, liteVars, pureVars>>

\* handleRandomAd under mu.RLock: the matching ads, or all ads when none matches
memHandleRandomAd ==
    /\ \E q \in TagQueries :
          LET prefs == Prefs(q)
              filtered == {i \in 1..Len(memAds) :
                              Len(prefs) > 0 /\ anyMatchMem(memAds[i].tags, prefs)}
              pool == IF filtered # {} THEN filtered ELSE 1..Len(memAds)
          IN  IF pool = {}
              THEN memResp' = [MemResp("random", <<>>, 404) EXCEPT !.query = q]
              ELSE \E i \in pool :
                      memResp' = [MemResp("random", memAds[i].id, 200) EXCEPT !.query = q]
    /\ UNCHANGED <<memAds, memFile, memPending, fullVars, liteVars, pureVars>>

NextMem ==
    \/ memHandleReloadAds
    \/ memHandleAddAdAppend
    \/ memSaveAdsMarshal
    \/ memSaveAdsOpen
    \/ memSaveAdsWrite
    \/ memHandleAddAdAnswer
    \/ memHandleRandomAd

SpecMem == InitMem /\ [][NextMem]_vars

(***************************************************************************)
(* The notions the properties are stated in.                               *)
(***************************************************************************)
\* a tag as the specification compares it: lower-cased and trimmed
NormTag(t) == TrimSpace(ToLower(t))

\* the requested tag set of a tags query: its non-blank tags
RequestedTags(q) == {NormTag(t) : t \in Range(Split(q))} \ {<<>>}

\* the tag set of a stored ad, in either server
TagSetOf(tags) == {NormTag(t) : t \in Range(tags)} \ {<<>>}
FullTagSet(a) == TagSetOf(ScannedTags(a.tags))
LiteTagSet(a) == TagSetOf(UnmarshalTags(a.tags))

\* active at time now: no expiry, or an expiry strictly after now
ActiveAt(a, now) == a.expires_at = NoText \/ ParseRFC3339(a.expires_at) > now

FullPool(now) == {a \in ads : ActiveAt(a, now)}
LitePool(now) == {a \in liteAds : ActiveAt(a, now)}

FullMatching(now, q) == {a \in FullPool(now) : FullTagSet(a) \cap RequestedTags(q) # {}}
LiteMatching(now, q) == {a \in LitePool(now) : LiteTagSet(a) \cap RequestedTags(q) # {}}

ViewsLogged(id) ==
    Cardinality({i \in impressions : i.ad_id = id /\ i.action_type = "view"})
ClicksLogged(id) ==
    Cardinality({i \in impressions : i.ad_id = id /\ i.action_type = "click"})

\* a valid ad spec: kind text or image, a redirect URL, and the content field
\* of its kind
ValidSpec(b) ==
    /\ b.ad_type \in {"text", "image"}
    /\ b.redirect_url # ""
    /\ b.ad_type = "text" => b.content # ""
    /\ b.ad_type = "image" => b.image_url # ""

(***************************************************************************)
(* Properties.                                                             *)
(***************************************************************************)
\* C1: with a non-empty active pool and a non-empty requested tag set that no
\* active ad shares a tag with, the selection answers with some ad of the pool
\* (fallback to the full pool) and never with "no ads available".
\* Stated of main.go's handleRandomAd, for stores of valid ads.
C1_FallbackToFullPool ==
    (/\ liteResp.op = "random"
     /\ \A a \in liteAds : a.type \in {"text", "image"} /\ a.redirect_url # ""
     /\ RequestedTags(liteResp.query) # {}
     /\ LitePool(liteResp.now) # {}
     /\ LiteMatching(liteResp.now, liteResp.query) = {})
    => (/\ liteResp.status = 200
        /\ liteResp.ad \in Ids(LitePool(liteResp.now)))

\* C2: when some active ad shares a tag with the requested tags, the ad the
\* selection returns is always one of the matching ads.
\* Stated of part_000's handleRandomAd.
C2_ReturnsMatchingAd ==
    (/\ resp.op = "random"
     /\ FullMatching(resp.now, resp.query) # {})
    => (/\ resp.status = 200
        /\ resp.ad \in Ids(FullMatching(resp.now, resp.query)))

\* C3: with an empty requested tag set and a non-empty active pool the selection
\* succeeds with an ad of the active pool (the only active ad when there is one).
C3_EmptyTagsReturnPoolAd ==
    (/\ resp.op = "random"
     /\ RequestedTags(resp.query) = {}
     /\ FullPool(resp.now) # {})
    => (/\ resp.status = 200
        /\ resp.ad \in Ids(FullPool(resp.now)))

\* C4: in every reachable state, whatever the interleaving of ad creation, ad
\* deletion, impression pings and the two statements of a click redirect, every
\* row of impressions references an ad that exists.
C4_NoDanglingEvent == \A i \in impressions : i.ad_id \in Ids(ads)

\* C4 witness: a click redirect whose ad was deleted between its SELECT and its
\* INSERT has completed, and the log holds events.
C4_Witness ==
    /\ resp.op = "redirect"
    /\ resp.status = 302
    /\ resp.id \notin Ids(ads)
    /\ impressions # {}

\* C5: an impression ping for an ad id that does not exist answers 404.
C5_MissingAdIsNotFound ==
    (resp.op = "impression" /\ resp.id \notin Ids(ads)) => resp.status = 404

\* C6: every impression ping for an existing ad succeeds, appends one new event
\* row and raises the views computeStats reports for that ad by one, so that two
\* identical pings append two distinct rows and raise views by 2.
C6_PingAppendsOneView ==
    [][(resp'.op = "impression" /\ resp'.id \in Ids(ads))
       => (/\ resp'.status = 200
           /\ Cardinality(impressions') = Cardinality(impressions) + 1
           /\ impressions \subseteq impressions'
           /\ \A r \in computeStats(DB)' : r.ad_id = resp'.id =>
                 \E r0 \in computeStats(DB) :
                    r0.ad_id = r.ad_id /\ r.views = r0.views + 1)]_vars

\* C7: the analytics answer has exactly one row for every ad of the store, whose
\* views and clicks are the numbers of view and click events logged for that ad.
C7_StatsCountEvents ==
    resp.op = "stats" =>
        /\ {r.ad_id : r \in resp.rows} = Ids(ads)
        /\ Cardinality(resp.rows) = Cardinality(ads)
        /\ \A r \in resp.rows : /\ r.views = ViewsLogged(r.ad_id)
                                /\ r.clicks = ClicksLogged(r.ad_id)

\* C8: deleting an existing ad answers 200 and removes that ad and exactly the
\* events that reference it; deleting an absent id (a second delete included)
\* answers 404 and changes nothing.
C8_DeleteAd ==
    [][resp'.op = "deleteAd" =>
         IF resp'.id \in Ids(ads)
         THEN /\ resp'.status = 200
              /\ ads' = {a \in ads : a.id # resp'.id}
              /\ impressions' = {i \in impressions : i.ad_id # resp'.id}
              /\ campaigns' = campaigns
         ELSE /\ resp'.status = 404
              /\ ads' = ads
              /\ impressions' = impressions
              /\ campaigns' = campaigns]_vars

\* C8 witness: a delete has just succeeded, of two logged events the one of the
\* deleted ad is gone and the one of the remaining ad is left.
C8_Witness ==
    /\ resp.op = "deleteAd"
    /\ resp.status = 200
    /\ nextImpId = 3
    /\ Cardinality(impressions) = 1
    /\ ads # {}

C10_StoredAdsValid ==
    \A a \in liteAds :
        /\ a.type \in {"text", "image"}
        /\ a.redirect_url # ""
        /\ a.type = "text" => a.content # ""
        /\ a.type = "image" => a.image_url # ""

\* C11: an ad whose expiry equals the selection time is not active and is never
\* returned: every ad the selection returns has no expiry or an expiry strictly
\* after the selection time.
\* Stated of main.go's handleRandomAd.
C11_ReturnedAdIsActive ==
    (liteResp.op = "random" /\ liteResp.status = 200)
    => \A a \in liteAds : a.id = liteResp.ad => ActiveAt(a, liteResp.now)

\* C12: a click-through for an ad that exists always answers with the 302
\* redirect, whether or not the click event was stored.
\* Stated of main.go's handleAdClick.
C12_ClickAlwaysRedirects ==
    (liteResp.op = "click" /\ liteResp.id \in Ids(liteAds)) => liteResp.status = 302

\* C13: an update with an invalid spec answers 400, an update with a valid spec
\* for an absent id answers 404; an update that does not answer 200 changes no
\* row, and one that answers 200 changes no ad but the one with the given id.
C13_UpdateAd ==
    [][resp'.op = "updateAd" =>
         /\ ~ValidSpec(resp'.body) => resp'.status = 400
         /\ (ValidSpec(resp'.body) /\ resp'.id \notin Ids(ads)) => resp'.status = 404
         /\ resp'.status # 200 => ads' = ads
         /\ resp'.status = 200 =>
               /\ resp'.id \in Ids(ads)
               /\ Ids(ads') = Ids(ads)
               /\ {a \in ads' : a.id # resp'.id} = {a \in ads : a.id # resp'.id}
         /\ campaigns' = campaigns
         /\ impressions' = impressions]_vars

\* C13 witness: an update with a valid spec for an absent id was answered 404
\* by a store that holds another ad.
C13_Witness ==
    /\ resp.op = "updateAd"
    /\ resp.status = 404
    /\ ValidSpec(resp.body)
    /\ ads # {}

\* C14: an ad that shares a tag with the request, compared case-insensitively
\* and trimmed on both sides, is matched by every matcher of the repository
\* (matchesTags and both anyMatch functions); one shared tag suffices.
C14_MatchersTrimAndFold ==
    (/\ pureOut.op = "match"
     /\ TagSetOf(pureIn.adTags) \cap RequestedTags(pureIn.query) # {})
    => (pureOut.matchesTags /\ pureOut.anyMatch /\ pureOut.memAnyMatch)

\* the hundredths a CTR string "int.dd%" reads as
DigitValue(c) == CHOOSE n \in 0..9 : DigitChar(n) = c

RECURSIVE DecimalValue(_)
DecimalValue(s) ==
    IF s = <<>> THEN 0
    ELSE DecimalValue(SubSeq(s, 1, Len(s) - 1)) * 10 + DigitValue(s[Len(s)])

CTRHundredths(s) ==
    DecimalValue(SubSeq(s, 1, Len(s) - 4)) * 100
    + DigitValue(s[Len(s) - 2]) * 10 + DigitValue(s[Len(s) - 1])

C16_StatsOrder ==
    resp.op = "stats" =>
        \A i, j \in 1..Len(resp.order) :
            i < j =>
               \A r \in resp.rows, q \in resp.rows :
                  (r.ad_id = resp.order[i] /\ q.ad_id = resp.order[j]) =>
                      \/ r.views > q.views
                      \/ (r.views = q.views /\ r.ad_id < q.ad_id)

\* C17: after any sequence of ad creations, with or without an id in the
\* request body, and reloads, no two ads of the store have the same id.
\* Stated of the in-memory server's slice.
C17_UniqueIds ==
    \A i, j \in 1..Len(memAds) : i # j => memAds[i].id # memAds[j].id

\* C18: a request whose tags are all blank (" , " is two blank entries) is
\* treated as a request without tags: matchesTags accepts every ad for it, as
\* it does for the empty request.
C18_BlankTagsAreNoPreference ==
    (pureOut.op = "match" /\ RequestedTags(pureIn.query) = {})
    => pureOut.matchesTags = matchesTags(pureIn.adTags, Split(<<>>))

\* C19: creating an ad from a valid spec that names no campaign succeeds and
\* stores the ad with no campaign reference, whatever the campaigns table holds.
C19_AdWithoutCampaign ==
    (/\ resp.op = "addAd"
     /\ ValidSpec(resp.body)
     /\ resp.body.campaign_id = 0)
    => (/\ resp.status = 201
        /\ \E a \in ads : /\ a.campaign_id = NULL
                          /\ a.ad_type = resp.body.ad_type
                          /\ a.content = resp.body.content
                          /\ a.redirect_url = resp.body.redirect_url)

\* C20: an update never changes the kind of an ad: every ad that is in the
\* store before and after a step has the same kind after it.
C20_KindIsFixed ==
    [][\A a \in ads, b \in ads' : a.id = b.id => a.ad_type = b.ad_type]_vars

\* C21: in the in-memory server, under every interleaving of handleAddAd,
\* handleReloadAds and handleRandomAd, every write saveAds makes to ads.json
\* leaves the file a snapshot of the complete slice, and when the last
\* handleAddAd has answered the file equals the slice and the ad it added is
\* in it.
C21_SnapshotsAndNothingLost ==
    [][/\ (memFile' # memFile /\ memFile' # <<>>) => memFile' = MemEncode(memAds')
       /\ (memResp'.op = "addAd" /\ memPending' = <<>>)
          => (/\ memFile' = MemEncode(memAds')
              /\ memResp'.id \in MemIds(memAds'))]_vars

=============================================================================
